---- MODULE Spec2Model ----
(***************************************************************************)
(* Model of package graceful (Runner, Plugin) of hay-kot/httpkit.          *)
(*                                                                         *)
(* One Runner object is shared by up to MaxCalls invocations of Start.     *)
(* Every goroutine the code creates is a process of the model: the caller  *)
(* of Start (pc), one worker per launched plugin (worker), the goroutine   *)
(* that waits for the WaitGroup (wgChannel), the goroutine that waits for  *)
(* the shutdown channel (watcher) and the runtime timer (newTimer).        *)
(* Channel operations are atomic, as they are under the Go runtime's       *)
(* channel locks: a select that finds no ready case parks, and the first   *)
(* channel event afterwards decides which case it resumes with.            *)
(***************************************************************************)
EXTENDS Integers, Sequences, FiniteSets, TLC

\* ------------------------------------------------------------------ bounds
\* plugins registered on the Runner
MaxPlugins == 3
\* calls of Start on the Runner, overlapping or one after the other
MaxCalls == 2
\* a Runner that is started more than once has at most this many plugins
MaxPluginsRestarted == 1
\* options passed to NewRunner
MaxOpts == 3
\* plugins registered on a Runner that is started once and scheduled fairly
MaxPluginsSolo == 2
\* calls of Server.Start
MaxServerStarts == 1
\* further calls of Server.Start, made in ServerRestartSpec only
MaxServerRestarts == 1
\* calls of Server.Shutdown made by the program (not by the signal goroutine)
MaxShutdowns == 2
\* tasks given to Server.Background and Server.BackgroundContext
MaxTasks == 2
\* requests the http.Server is serving at a time
MaxRequests == 1
\* middleware in one list: of the ErrChain, of the Router, of a route
MaxMw == 2
\* routes registered on the Router or made with ErrChain.ToHandler
MaxRoutes == 1
\* characters in the prefix given to NewRouter and in the path given to Method
MaxLen == 3

Calls == 1..MaxCalls

\* ------------------------------------------------- plugin behaviours (inputs)
\* "ok"   : the documented plugin: blocks until ctx is done, cleans up, returns nil
\* "fail" : terminates early: returns a non-nil error without waiting for ctx
\* "hang" : waits for ctx, then blocks forever (plug3 of Test_Runner_LifeCycle)
Kinds == {"ok", "fail", "hang"}
\* and a plugin whose start function returns nil at once, used in EarlySpec
EarlyKinds == Kinds \cup {"early"}

\* ------------------------------------------------------------ error values
Nil == [kind |-> "nil", id |-> 0]
Pending == [kind |-> "pending", id |-> 0]
ErrRunnerAlreadyStarted == [kind |-> "ErrRunnerAlreadyStarted", id |-> 0]
DeadlineExceeded == [kind |-> "DeadlineExceeded", id |-> 0]
\* the error value created by the start function of the i-th registered plugin
PluginErr(i) == [kind |-> "plugin", id |-> i]

VARIABLES
  started,     \* Runner.started
  plugins,     \* Runner.plugins: the behaviour of each registered plugin
  shutdown,    \* Runner.shutdown: "open" or "closed"
  panicked,    \* the process died of a run-time panic
  pc,          \* position of each Start call
  plugs,       \* the slice the launch loop of a call ranges over
  idx,         \* the launch loop's next index
  parent,      \* the scope the caller passed to Start: "live", cancelled
               \* "before" the call or cancelled "during" it
  ctxDone,     \* the scope made by signal.NotifyContext is cancelled
  wg,          \* the WaitGroup counter of a call
  wgChannel,   \* wgChannel of a call is closed
  plugErr,     \* plugErr of a call
  worker,      \* state of the worker goroutine of each plugin of a call
  watcher,     \* state of the goroutine reading Runner.shutdown
  newTimer,    \* state of the grace timer of a call
  result,      \* the value Start returns
  log          \* what a call has passed to opts.println

\* NewRunner applying its options
VARIABLES
  optArgs,     \* the options passed to NewRunner
  o,           \* the runnerOpts being built
  applied      \* how many options the loop of NewRunner has applied

optVars == <<optArgs, o, applied>>

\* package server
VARIABLES
  srvStarted,   \* Server.started
  activeServer, \* Server.activeServer: "nil", or the http.Server: "new",
                \* "serving", or "closed" once its Shutdown was called
  requests,     \* requests the http.Server is serving
  jobctx,       \* Server.jobctx is cancelled
  srvWg,        \* the counter of Server.wg
  tasks,        \* the background tasks: what they do and whether they finished
  startPc,      \* position of each call of Server.Start
  startRes,     \* what each call of Server.Start returned
  sigG,         \* the signal goroutine of each call of Server.Start
  sdPc,         \* position of each call of Server.Shutdown
  sdRes,        \* what each call of Server.Shutdown returned
  srvExited     \* os.Exit was called

serverVars == <<srvStarted, activeServer, requests, jobctx, srvWg, tasks,
                startPc, startRes, sigG, sdPc, sdRes, srvExited>>

\* the state of the Runner and of the calls of Start
runnerState == <<started, plugins, shutdown, panicked, pc, plugs, idx, parent,
                 ctxDone, wg, wgChannel, plugErr, worker, watcher, newTimer, result, log>>

\* the state the operations of the Runner leave alone

\* package errchain
VARIABLES
  globalMW,      \* ErrChain.globalMW
  routerMW,      \* Router.mw
  routes,        \* the handlers built: by whom, with which middleware
  served,        \* what ran for the last request, in order
  chainPanicked  \* a registration panicked

chainVars == <<globalMW, routerMW, routes, served, chainPanicked>>

\* package errchain, the paths of the Router
VARIABLES
  prefixArg,     \* the prefix given to NewRouter
  prefix,        \* Router.prefix
  pathArgs,      \* the method and path of the last call of Method
  pattern,       \* the pattern Method handed to handle and so to ServeMux.Handle
  routerPc       \* "none", "made" after NewRouter, "handled" after a Method

pathVars == <<prefixArg, prefix, pathArgs, pattern, routerPc>>

outsideRunner == <<optVars, serverVars, chainVars, pathVars>>
outsideServer == <<runnerState, optVars, chainVars, pathVars>>
outsideChain == <<runnerState, optVars, serverVars, pathVars>>
outsidePath == <<runnerState, optVars, serverVars, chainVars>>

vars == <<started, plugins, shutdown, panicked, pc, plugs, idx, parent,
          ctxDone, wg, wgChannel, plugErr, worker, watcher, newTimer, result, log,
          outsideRunner>>

runnerVars == <<started, plugins, shutdown>>

\* ------------------------------------------------------------------ helpers
\* a call that passed the guard of Start and has not returned
Active(c) == pc[c] \in {"loop", "select", "parked", "drain", "parked2", "ret"}

\* a call that passed the guard of Start
Passed(c) == pc[c] # "idle" /\ result[c] # ErrRunnerAlreadyStarted

\* a call that returned
Returned(c) == pc[c] = "done"

\* what the start function of the i-th plugin returns
RetVal_AlwaysFails(kind, i) == PluginErr(i)
RetVal(kind, i) == IF kind = "fail" THEN PluginErr(i) ELSE Nil

\* the start function of a plugin of this kind can return now
CanReturn_Unconditionally(kind, done) == kind # "hang"
CanReturn(kind, done) ==
  CASE kind = "fail" -> TRUE
    [] kind = "ok"   -> done
    [] kind = "hang" -> FALSE
    [] kind = "early" -> TRUE

\* "case pluginErrCh <- err": the channel has no buffer, the send happens only
\* when Start is waiting in the select that receives from it
SendSucceeds_AnySelect(p) == p \in {"parked", "parked2"}
SendSucceeds(p) == p = "parked"

\* "default:": the worker goes on whether or not the send can happen
CanGoOn_Blocking(p) == p = "parked"
CanGoOn(p) == TRUE

\* time.NewTimer(svr.opts.timeout): a timer that has not elapsed
NewTimer_Elapsed(t) == "fired"
NewTimer(t) == "armed"

\* wg.Add(len(svr.plugins)) on the fresh WaitGroup
WgAdd_OffByOne(ps) == Len(ps) + 1
WgAdd(ps) == Len(ps)

\* wg.Done()
WgDone_Skipped(n) == n
WgDone(n) == n - 1

\* wg.Wait() returns
WgWaitOver_Early(n) == n <= 1
WgWaitOver(n) == n = 0

\* the launch loop moves to the next plugin
NextIndex_Skip(i) == i + 2
NextIndex(i) == i + 1

\* the value a worker sends on pluginErrCh and Start returns from the case
\* that receives it
Report_Wrapped(err) == [kind |-> "wrapped", id |-> err.id]
Report(err) == err

\* the deferred "svr.started = false" of a call returning r
DeferredStarted_OnlyOnNil(r) == r # Nil
DeferredStarted(r) == FALSE

\* the deferred cancel() of a call whose scope is in state done
DeferredCancel_Missing(done) == done
DeferredCancel(done) == TRUE

\* <-svr.shutdown on a channel in state ch returns
Received_Never(ch) == FALSE
Received(ch) == ch = "closed"

\* closing the Done channel of the scopes of the calls in S: a call parked in
\* the first select resumes with the ctx.Done() case
AfterCancel_NoWake(S) == pc
AfterCancel(S) ==
  [c \in Calls |-> IF c \in S /\ pc[c] = "parked" THEN "drain" ELSE pc[c]]

\* ------------------------------------------------------------------ options
\* the defaults NewRunner starts from
DefaultSignals == {"os.Interrupt", "syscall.SIGTERM"}
DefaultTimeout == 5
DefaultPrintln == "noop"
DefaultOpts ==
  [signals |-> DefaultSignals, timeout |-> DefaultTimeout, println |-> DefaultPrintln]

\* The RunnerOptFunc values: the closure each constructor returns, as the
\* constructor's name and the argument it captured.
WithSignals(sigs) ==
  [with |-> "WithSignals", signals |-> sigs, timeout |-> 0, println |-> ""]
WithTimeout(t) ==
  [with |-> "WithTimeout", signals |-> {}, timeout |-> t, println |-> ""]
WithPrintln(fn) ==
  [with |-> "WithPrintln", signals |-> {}, timeout |-> 0, println |-> fn]

\* the options callers pass
Options ==
  {WithSignals(sigs) : sigs \in {{"syscall.SIGHUP"}, {}}}
    \cup {WithTimeout(t) : t \in {0, 3}}
    \cup {WithPrintln(fn) : fn \in {"t.Log", "log.Println"}}

OptLists == UNION {[1..n -> Options] : n \in 0..MaxOpts}

\* opt(o): what calling the closure does to the runnerOpts
Apply_AppendSignals(opt, ro) ==
  CASE opt.with = "WithSignals" -> [ro EXCEPT !.signals = ro.signals \cup opt.signals]
    [] opt.with = "WithTimeout" -> [ro EXCEPT !.timeout = opt.timeout]
    [] opt.with = "WithPrintln" -> [ro EXCEPT !.println = opt.println]
Apply(opt, ro) ==
  CASE opt.with = "WithSignals" -> [ro EXCEPT !.signals = opt.signals]
    [] opt.with = "WithTimeout" -> [ro EXCEPT !.timeout = opt.timeout]
    [] opt.with = "WithPrintln" -> [ro EXCEPT !.println = opt.println]

\* ------------------------------------------------------------ package server
StartIds == 1..(MaxServerStarts + MaxServerRestarts)
\* the calls of Start that ServerSpec makes
FirstStartIds == 1..MaxServerStarts
\* calls of Shutdown: 1..MaxShutdowns are made by the program, SigOf(q) is the
\* call made by the signal goroutine of call q of Start
SdIds == 1..(MaxShutdowns + MaxServerStarts + MaxServerRestarts)
SigOf(q) == MaxShutdowns + q

ErrServerNotStarted == [kind |-> "ErrServerNotStarted", id |-> 0]
ErrServerAlreadyStarted == [kind |-> "ErrServerAlreadyStarted", id |-> 0]
\* an error of ListenAndServe other than http.ErrServerClosed
ListenErr == [kind |-> "listen", id |-> 0]

\* "block": a Background task that blocks until the program releases it
\* "ctx"  : a BackgroundContext task that returns when its context is cancelled
\* "never": a BackgroundContext task that never returns
BackgroundKinds == {"block"}
BackgroundContextKinds == {"ctx", "never"}

\* the task function of this kind can return now
CanFinish(kind, cancelled) ==
  CASE kind = "block" -> TRUE
    [] kind = "ctx"   -> cancelled
    [] kind = "never" -> FALSE

\* the guard of start: "if s.started"
AlreadyStarted_Never(st) == FALSE
AlreadyStarted(st) == st

\* the guard of Shutdown: "if !s.started"
NotStarted_Never(st) == FALSE
NotStarted(st) == ~st

\* s.cancelctx(): the job context is cancelled afterwards
Cancelctx_Missing(cancelled) == cancelled
Cancelctx(cancelled) == TRUE

\* s.wg.Wait() returns
SrvWaitOver_Skipped(n) == TRUE
SrvWaitOver(n) == n = 0

\* NewServer
NewServerState ==
  /\ srvStarted = FALSE
  /\ activeServer = "nil"
  /\ requests = 0
  /\ jobctx = FALSE
  /\ srvWg = 0
  /\ tasks = <<>>
  /\ startPc = [q \in StartIds |-> "idle"]
  /\ startRes = [q \in StartIds |-> Pending]
  /\ sigG = [q \in StartIds |-> "none"]
  /\ sdPc = [p \in SdIds |-> "idle"]
  /\ sdRes = [p \in SdIds |-> Pending]
  /\ srvExited = FALSE

\* ---------------------------------------------------------- package errchain
\* the middleware values: two functions that record their name and call the
\* next handler, and the nil function
MwNames == {"m1", "m2", "nil"}

RECURSIVE SeqsUpTo(_, _)
SeqsUpTo(S, n) ==
  IF n = 0 THEN {<<>>}
  ELSE LET shorter == SeqsUpTo(S, n - 1)
       IN shorter \cup {Append(q, x) : q \in {r \in shorter : Len(r) = n - 1}, x \in S}

\* the arguments of one call of Use, Get or ToHandler
MwLists == SeqsUpTo(MwNames, MaxMw)

\* a handler is the list of its layers, the outermost first; the handler
\* function given by the program is the innermost
TheHandler == <<"handler">>

\* middleware m applied to handler h: m runs and then calls h
WrapWith(m, h) == <<m>> \o h

\* "if h != nil" in wrapMiddleware
IsNil(m) == m = "nil"

\* wrapMiddleware: the loop from i = len(mw)-1 down to 0, here from i down to 1
RECURSIVE wrapLoop(_, _, _)
wrapLoop(handler, mw, i) ==
  IF i = 0 THEN handler
  ELSE wrapLoop(IF IsNil(mw[i]) THEN handler ELSE WrapWith(mw[i], handler), mw, i - 1)

wrapMiddleware(handler, mw) == wrapLoop(handler, mw, Len(mw))

\* ErrChain.ToHandler: the global middleware, then the middleware given,
\* wrapped around h, and the error handler around all of it
ToHandler(global, h, mw) == <<"errorHandler">> \o wrapMiddleware(h, global \o mw)

\* the loop of Router.handle over r.mw, from the last to the first: it calls
\* every entry, also a nil one
RECURSIVE routerLoop(_, _, _)
routerLoop(hdlr, mw, i) ==
  IF i = 0 THEN hdlr
  ELSE routerLoop(WrapWith(mw[i], hdlr), mw, i - 1)

\* calling a nil function panics
RouterLoopPanics(mw) == \E i \in DOMAIN mw : mw[i] = "nil"

\* what a request runs through, in order: every layer but the error handler,
\* which records nothing
Executed(hdlr) == SelectSeq(hdlr, LAMBDA x : x # "errorHandler")

\* New and NewRouter
NewChainState ==
  /\ globalMW = <<>>
  /\ routerMW = <<>>
  /\ routes = <<>>
  /\ served = <<>>
  /\ chainPanicked = FALSE

\* strings are sequences of characters; a prefix or a path is made of these
Chars == {"/", "a"}
Strings == SeqsUpTo(Chars, MaxLen)
\* the methods given to Method: ErrHandle gives "", Get gives http.MethodGet
Methods == {<<>>, <<"G", "E", "T">>}

\* the prefix NewRouter stores
NewRouter(p) ==
  LET p1 == IF p = <<"/">> THEN <<>> ELSE p
      p2 == IF p1 # <<>> /\ p1[1] # "/" THEN <<"/">> \o p1 ELSE p1
      p3 == IF p1 # <<>> /\ p2[Len(p2)] = "/" THEN SubSeq(p2, 1, Len(p2) - 1) ELSE p2
  IN p3

\* the pattern Method builds
Method(pfx, method, path) ==
  LET p1 == IF Len(path) > 0 /\ path[1] # "/" THEN <<"/">> \o path ELSE path
      p2 == pfx \o p1
  IN IF method # <<>> THEN method \o <<" ">> \o p2 ELSE p2

\* no Router yet
NewPathState ==
  /\ prefix = <<>>
  /\ pathArgs = [method |-> <<>>, path |-> <<>>]
  /\ pattern = <<>>
  /\ routerPc = "none"

\* ---------------------------------------------------------------- NewRunner
\* the Runner NewRunner returns, with no call of Start yet
NewRunnerState ==
  /\ started = FALSE
  /\ plugins = <<>>
  /\ shutdown = "open"
  /\ panicked = FALSE
  /\ pc = [c \in Calls |-> "idle"]
  /\ plugs = [c \in Calls |-> <<>>]
  /\ idx = [c \in Calls |-> 1]
  /\ parent = [c \in Calls |-> "live"]
  /\ ctxDone = [c \in Calls |-> FALSE]
  /\ wg = [c \in Calls |-> 0]
  /\ wgChannel = [c \in Calls |-> FALSE]
  /\ plugErr = [c \in Calls |-> Nil]
  /\ worker = [c \in Calls |-> <<>>]
  /\ watcher = [c \in Calls |-> "none"]
  /\ newTimer = [c \in Calls |-> "none"]
  /\ result = [c \in Calls |-> Pending]
  /\ log = [c \in Calls |-> <<>>]

\* NewRunner() without options
Init ==
  /\ NewRunnerState
  /\ optArgs = <<>>
  /\ o = DefaultOpts
  /\ applied = 0
  /\ NewServerState
  /\ NewChainState
  /\ prefixArg = <<>>
  /\ NewPathState

\* NewRunner(opts...) before its loop over opts
OptInit ==
  /\ NewRunnerState
  /\ optArgs \in OptLists
  /\ o = DefaultOpts
  /\ applied = 0
  /\ NewServerState
  /\ NewChainState
  /\ prefixArg = <<>>
  /\ NewPathState

\* one iteration of "for _, opt := range opts { opt(o) }"
ApplyOpt ==
  /\ applied < Len(optArgs)
  /\ o' = Apply(optArgs[applied + 1], o)
  /\ applied' = applied + 1
  /\ UNCHANGED <<optArgs, runnerState, serverVars, chainVars, pathVars>>

OptNext == ApplyOpt

OptSpec == OptInit /\ [][OptNext]_vars

\* ---------------------------------------------------------------- AddPlugin
\* Called "during construction": the callers of the model register plugins
\* before the first Start.
AddPlugin(k) ==
  /\ ~panicked
  /\ \A c \in Calls : pc[c] = "idle"
  /\ Len(plugins) < MaxPlugins
  /\ plugins' = Append(plugins, k)
  /\ UNCHANGED <<started, shutdown, panicked, pc, plugs, idx, parent, ctxDone,
                 wg, wgChannel, plugErr, worker, watcher, newTimer, result, log>>
  /\ UNCHANGED outsideRunner

\* the guard of Start: "if svr.started"
Rejects_Never(st) == FALSE
Rejects(st) == st

\* AddPlugin called after a Start call has begun: the code has no guard, the
\* append happens as during construction.
AddPluginLate(k) ==
  /\ ~panicked
  /\ \E c \in Calls : pc[c] # "idle"
  /\ Len(plugins) < MaxPluginsSolo
  /\ plugins' = Append(plugins, k)
  /\ UNCHANGED <<started, shutdown, panicked, pc, plugs, idx, parent, ctxDone,
                 wg, wgChannel, plugErr, worker, watcher, newTimer, result, log>>
  /\ UNCHANGED outsideRunner

\* ------------------------------------------------------------------- Start
\* Start up to the launch loop: the guard, signal.NotifyContext, wg.Add and the
\* goroutine waiting for wg.  pre: the caller's scope is already cancelled.
StartCall(c, pre) ==
  /\ ~panicked
  /\ pc[c] = "idle"
  /\ \A d \in Calls : d < c => pc[d] # "idle"
  /\ c > 1 => Len(plugins) <= MaxPluginsRestarted
  /\ IF Rejects(started)
       THEN /\ pc' = [pc EXCEPT ![c] = "done"]
            /\ result' = [result EXCEPT ![c] = ErrRunnerAlreadyStarted]
            /\ UNCHANGED <<plugs, idx, parent, ctxDone, wg, worker>>
       ELSE /\ pc' = [pc EXCEPT ![c] = "loop"]
            /\ parent' = [parent EXCEPT ![c] = IF pre THEN "before" ELSE "live"]
            /\ ctxDone' = [ctxDone EXCEPT ![c] = pre]
            /\ wg' = [wg EXCEPT ![c] = WgAdd(plugins)]
            /\ plugs' = [plugs EXCEPT ![c] = plugins]
            /\ idx' = [idx EXCEPT ![c] = 1]
            /\ worker' = [worker EXCEPT ![c] = [i \in 1..Len(plugins) |-> "none"]]
            /\ UNCHANGED result
  /\ UNCHANGED <<started, plugins, shutdown, panicked, wgChannel, plugErr,
                 watcher, newTimer, log>>
  /\ UNCHANGED outsideRunner

\* One iteration of the launch loop.  plugErr is written by the workers with
\* no synchronisation: once a worker has written it the loop may read either
\* the written value (and break, see MarkStarted) or still nil.
LaunchNext(c) ==
  /\ ~panicked
  /\ pc[c] = "loop"
  /\ idx[c] <= Len(plugs[c])
  /\ worker' = [worker EXCEPT ![c][idx[c]] = "spawned"]
  /\ idx' = [idx EXCEPT ![c] = NextIndex(idx[c])]
  /\ UNCHANGED <<started, plugins, shutdown, panicked, pc, plugs, parent, ctxDone,
                 wg, wgChannel, plugErr, watcher, newTimer, result, log>>
  /\ UNCHANGED outsideRunner

\* The loop ends (all launched, or break on plugErr != nil); the goroutine
\* reading Runner.shutdown is created and started is set.
MarkStarted(c) ==
  /\ ~panicked
  /\ pc[c] = "loop"
  /\ idx[c] > Len(plugs[c]) \/ plugErr[c] # Nil
  /\ watcher' = [watcher EXCEPT ![c] = "waiting"]
  /\ started' = TRUE
  /\ pc' = [pc EXCEPT ![c] = "select"]
  /\ UNCHANGED <<plugins, shutdown, panicked, plugs, idx, parent, ctxDone,
                 wg, wgChannel, plugErr, worker, newTimer, result, log>>
  /\ UNCHANGED outsideRunner

\* Start reaches the first select.  No sender ever waits on pluginErrCh, so the
\* only case that can be ready is ctx.Done(); otherwise the call parks.
EnterSelect(c) ==
  /\ ~panicked
  /\ pc[c] = "select"
  /\ pc' = [pc EXCEPT ![c] = IF ctxDone[c] THEN "drain" ELSE "parked"]
  /\ UNCHANGED <<started, plugins, shutdown, panicked, plugs, idx, parent, ctxDone,
                 wg, wgChannel, plugErr, worker, watcher, newTimer, result, log>>
  /\ UNCHANGED outsideRunner

\* case <-ctx.Done(): the timer is created, the message printed and the second
\* select entered.
BeginDrain(c) ==
  /\ ~panicked
  /\ pc[c] = "drain"
  /\ newTimer' = [newTimer EXCEPT ![c] = NewTimer(o.timeout)]
  /\ log' = [log EXCEPT ![c] = Append(log[c], "server received signal, shutting down")]
  /\ IF wgChannel[c]
       THEN /\ pc' = [pc EXCEPT ![c] = "ret"]
            /\ result' = [result EXCEPT ![c] = Nil]
       ELSE /\ pc' = [pc EXCEPT ![c] = "parked2"]
            /\ UNCHANGED result
  /\ UNCHANGED <<started, plugins, shutdown, panicked, plugs, idx, parent, ctxDone,
                 wg, wgChannel, plugErr, worker, watcher>>
  /\ UNCHANGED outsideRunner

\* the line a call prints for the case its select resumed with
ResultLine_AlwaysStopped(r) == "all plugins have stopped, shutting down"
ResultLine(r) ==
  CASE r = Nil -> "all plugins have stopped, shutting down"
    [] r = DeadlineExceeded -> "timeout waiting for plugins to stop, shutting down"
    [] OTHER -> "plugin error:"

\* The chosen case prints its line and returns; the deferred functions run:
\* newTimer.Stop(), started = false, cancel().
Return(c) ==
  /\ ~panicked
  /\ pc[c] = "ret"
  /\ log' = [log EXCEPT ![c] = Append(log[c], ResultLine(result[c]))]
  /\ newTimer' = [newTimer EXCEPT ![c] = IF newTimer[c] = "armed" THEN "stopped" ELSE newTimer[c]]
  /\ started' = DeferredStarted(result[c])
  /\ ctxDone' = [ctxDone EXCEPT ![c] = DeferredCancel(ctxDone[c])]
  /\ pc' = [pc EXCEPT ![c] = "done"]
  /\ UNCHANGED <<plugins, shutdown, panicked, plugs, idx, parent,
                 wg, wgChannel, plugErr, worker, watcher, result>>
  /\ UNCHANGED outsideRunner

\* ------------------------------------------------------- worker goroutines
\* the goroutine runs and calls p.Start(ctx)
WorkerInvoke(c, i) ==
  /\ ~panicked
  /\ i \in DOMAIN worker[c]
  /\ worker[c][i] = "spawned"
  /\ worker' = [worker EXCEPT ![c][i] = "running"]
  /\ UNCHANGED <<started, plugins, shutdown, panicked, pc, plugs, idx, parent, ctxDone,
                 wg, wgChannel, plugErr, watcher, newTimer, result, log>>
  /\ UNCHANGED outsideRunner

\* p.Start(ctx) returns
WorkerReturn(c, i) ==
  /\ ~panicked
  /\ i \in DOMAIN worker[c]
  /\ worker[c][i] = "running"
  /\ CanReturn(plugs[c][i], ctxDone[c])
  /\ worker' = [worker EXCEPT ![c][i] = "returned"]
  /\ UNCHANGED <<started, plugins, shutdown, panicked, pc, plugs, idx, parent, ctxDone,
                 wg, wgChannel, plugErr, watcher, newTimer, result, log>>
  /\ UNCHANGED outsideRunner

\* The rest of the goroutine: on an error, plugErr = err and the non-blocking
\* send, which succeeds only if Start is parked in the first select; then the
\* deferred wg.Done().
WorkerExit(c, i) ==
  /\ ~panicked
  /\ i \in DOMAIN worker[c]
  /\ worker[c][i] = "returned"
  /\ LET err == RetVal(plugs[c][i], i) IN
       IF err # Nil
         THEN /\ CanGoOn(pc[c])
              /\ plugErr' = [plugErr EXCEPT ![c] = err]
              /\ IF SendSucceeds(pc[c])
                   THEN /\ pc' = [pc EXCEPT ![c] = "ret"]
                        /\ result' = [result EXCEPT ![c] = Report(err)]
                   ELSE UNCHANGED <<pc, result>>
         ELSE UNCHANGED <<plugErr, pc, result>>
  /\ wg' = [wg EXCEPT ![c] = WgDone(wg[c])]
  /\ worker' = [worker EXCEPT ![c][i] = "finished"]
  /\ UNCHANGED <<started, plugins, shutdown, panicked, plugs, idx, parent, ctxDone,
                 wgChannel, watcher, newTimer, log>>
  /\ UNCHANGED outsideRunner

\* ------------------------------------------------------- helper goroutines
\* go func() { wg.Wait(); close(wgChannel) }()
JoinWaiter(c) ==
  /\ ~panicked
  /\ Passed(c)
  /\ WgWaitOver(wg[c])
  /\ ~wgChannel[c]
  /\ wgChannel' = [wgChannel EXCEPT ![c] = TRUE]
  /\ IF pc[c] = "parked2"
       THEN /\ pc' = [pc EXCEPT ![c] = "ret"]
            /\ result' = [result EXCEPT ![c] = Nil]
       ELSE UNCHANGED <<pc, result>>
  /\ UNCHANGED <<started, plugins, shutdown, panicked, plugs, idx, parent, ctxDone,
                 wg, plugErr, worker, watcher, newTimer, log>>
  /\ UNCHANGED outsideRunner

\* go func() { <-svr.shutdown; cancel() }()
Watcher(c) ==
  /\ ~panicked
  /\ watcher[c] = "waiting"
  /\ Received(shutdown)
  /\ watcher' = [watcher EXCEPT ![c] = "exited"]
  /\ ctxDone' = [ctxDone EXCEPT ![c] = TRUE]
  /\ pc' = AfterCancel({c})
  /\ UNCHANGED <<started, plugins, shutdown, panicked, plugs, idx, parent,
                 wg, wgChannel, plugErr, worker, newTimer, result, log>>
  /\ UNCHANGED outsideRunner

\* a goroutine of call c that is not waiting for anything can take a step
Runnable(c) ==
  \/ \E i \in DOMAIN worker[c] :
       \/ worker[c][i] \in {"spawned", "returned"}
       \/ worker[c][i] = "running" /\ CanReturn(plugs[c][i], ctxDone[c])
  \/ WgWaitOver(wg[c]) /\ ~wgChannel[c]

\* The grace timer elapses.  opts.timeout is long against the scheduling of
\* runnable goroutines: the timer elapses only once every goroutine of the
\* call is blocked.
TimerFire(c) ==
  /\ ~panicked
  /\ pc[c] = "parked2"
  /\ newTimer[c] = "armed"
  /\ ~Runnable(c)
  /\ newTimer' = [newTimer EXCEPT ![c] = "fired"]
  /\ pc' = [pc EXCEPT ![c] = "ret"]
  /\ result' = [result EXCEPT ![c] = DeadlineExceeded]
  /\ UNCHANGED <<started, plugins, shutdown, panicked, plugs, idx, parent, ctxDone,
                 wg, wgChannel, plugErr, worker, watcher, log>>
  /\ UNCHANGED outsideRunner

\* ---------------------------------------------------------------- Shutdown
\* close(svr.shutdown); closing a closed channel panics
Shutdown ==
  /\ ~panicked
  /\ IF shutdown = "open"
       THEN shutdown' = "closed" /\ UNCHANGED panicked
       ELSE panicked' = TRUE /\ UNCHANGED shutdown
  /\ UNCHANGED <<started, plugins, pc, plugs, idx, parent, ctxDone,
                 wg, wgChannel, plugErr, worker, watcher, newTimer, result, log>>
  /\ UNCHANGED outsideRunner

\* ------------------------------------------------------------- environment
\* the caller cancels the scope it passed to Start
CancelParent(c) ==
  /\ ~panicked
  /\ Active(c)
  /\ parent[c] = "live"
  /\ ~ctxDone[c]
  /\ parent' = [parent EXCEPT ![c] = "during"]
  /\ ctxDone' = [ctxDone EXCEPT ![c] = TRUE]
  /\ pc' = AfterCancel({c})
  /\ UNCHANGED <<started, plugins, shutdown, panicked, plugs, idx,
                 wg, wgChannel, plugErr, worker, watcher, newTimer, result, log>>
  /\ UNCHANGED outsideRunner

\* one of opts.signals arrives: every scope made by signal.NotifyContext and
\* not yet released is cancelled
Signal ==
  /\ ~panicked
  /\ \E c \in Calls : Active(c) /\ ~ctxDone[c]
  /\ ctxDone' = [c \in Calls |-> ctxDone[c] \/ Active(c)]
  /\ pc' = AfterCancel({c \in Calls : Active(c)})
  /\ UNCHANGED <<started, plugins, shutdown, panicked, plugs, idx, parent,
                 wg, wgChannel, plugErr, worker, watcher, newTimer, result, log>>
  /\ UNCHANGED outsideRunner

\* ------------------------------------------------------------ specification
Next ==
  \/ \E k \in Kinds : AddPlugin(k)
  \/ \E c \in Calls, pre \in BOOLEAN : StartCall(c, pre)
  \/ \E c \in Calls : LaunchNext(c)
  \/ \E c \in Calls : MarkStarted(c)
  \/ \E c \in Calls : EnterSelect(c)
  \/ \E c \in Calls : BeginDrain(c)
  \/ \E c \in Calls : Return(c)
  \/ \E c \in Calls, i \in 1..MaxPlugins : WorkerInvoke(c, i)
  \/ \E c \in Calls, i \in 1..MaxPlugins : WorkerReturn(c, i)
  \/ \E c \in Calls, i \in 1..MaxPlugins : WorkerExit(c, i)
  \/ \E c \in Calls : JoinWaiter(c)
  \/ \E c \in Calls : Watcher(c)
  \/ \E c \in Calls : TimerFire(c)
  \/ Shutdown
  \/ \E c \in Calls : CancelParent(c)
  \/ Signal

Spec == Init /\ [][Next]_vars

\* Runnable goroutines are scheduled, and an armed timer whose guard holds
\* elapses; callers, signals and Shutdown requests are under no obligation.
FairCall(c) ==
  /\ WF_vars(LaunchNext(c))
  /\ WF_vars(MarkStarted(c))
  /\ WF_vars(EnterSelect(c))
  /\ WF_vars(BeginDrain(c))
  /\ WF_vars(Return(c))
  /\ WF_vars(JoinWaiter(c))
  /\ WF_vars(Watcher(c))
  /\ WF_vars(TimerFire(c))
  /\ \A i \in 1..MaxPlugins :
       /\ WF_vars(WorkerInvoke(c, i))
       /\ WF_vars(WorkerReturn(c, i))
       /\ WF_vars(WorkerExit(c, i))

Fairness == \A c \in Calls : FairCall(c)

FairSpec == Spec /\ Fairness

\* A Runner on which Start is called once.
SoloNext ==
  \/ \E k \in Kinds : Len(plugins) < MaxPluginsSolo /\ AddPlugin(k)
  \/ \E pre \in BOOLEAN : StartCall(1, pre)
  \/ LaunchNext(1)
  \/ MarkStarted(1)
  \/ EnterSelect(1)
  \/ BeginDrain(1)
  \/ Return(1)
  \/ \E i \in 1..MaxPlugins : WorkerInvoke(1, i)
  \/ \E i \in 1..MaxPlugins : WorkerReturn(1, i)
  \/ \E i \in 1..MaxPlugins : WorkerExit(1, i)
  \/ JoinWaiter(1)
  \/ Watcher(1)
  \/ TimerFire(1)
  \/ Shutdown
  \/ CancelParent(1)
  \/ Signal

SoloFairSpec == Init /\ [][SoloNext]_vars /\ FairCall(1)

\* A Runner on which Start is called once, and whose plugins may also return
\* nil before the scope is cancelled.
EarlyNext ==
  \/ \E k \in EarlyKinds : Len(plugins) < MaxPluginsSolo /\ AddPlugin(k)
  \/ \E pre \in BOOLEAN : StartCall(1, pre)
  \/ LaunchNext(1)
  \/ MarkStarted(1)
  \/ EnterSelect(1)
  \/ BeginDrain(1)
  \/ Return(1)
  \/ \E i \in 1..MaxPlugins : WorkerInvoke(1, i)
  \/ \E i \in 1..MaxPlugins : WorkerReturn(1, i)
  \/ \E i \in 1..MaxPlugins : WorkerExit(1, i)
  \/ JoinWaiter(1)
  \/ Watcher(1)
  \/ TimerFire(1)
  \/ Shutdown
  \/ CancelParent(1)
  \/ Signal

EarlySpec == Init /\ [][EarlyNext]_vars

\* A Runner on which Start is called once and AddPlugin at any time.
LateAddNext ==
  \/ \E k \in Kinds : Len(plugins) < MaxPluginsSolo /\ AddPlugin(k)
  \/ \E k \in Kinds : AddPluginLate(k)
  \/ \E pre \in BOOLEAN : StartCall(1, pre)
  \/ LaunchNext(1)
  \/ MarkStarted(1)
  \/ EnterSelect(1)
  \/ BeginDrain(1)
  \/ Return(1)
  \/ \E i \in 1..MaxPlugins : WorkerInvoke(1, i)
  \/ \E i \in 1..MaxPlugins : WorkerReturn(1, i)
  \/ \E i \in 1..MaxPlugins : WorkerExit(1, i)
  \/ JoinWaiter(1)
  \/ Watcher(1)
  \/ TimerFire(1)
  \/ Shutdown
  \/ CancelParent(1)
  \/ Signal

LateAddSpec == Init /\ [][LateAddNext]_vars

\* ============================================================ package server
\* Server.Background(task): s.wg.Add(1) and the goroutine running the task
Background(k) ==
  /\ ~srvExited
  /\ Len(tasks) < MaxTasks
  /\ srvWg' = srvWg + 1
  /\ tasks' = Append(tasks, [kind |-> k, state |-> "running"])
  /\ UNCHANGED <<srvStarted, activeServer, requests, jobctx,
                 startPc, startRes, sigG, sdPc, sdRes, srvExited>>
  /\ UNCHANGED outsideServer

\* Server.BackgroundContext(task): the same, the task gets s.jobctx
BackgroundContext(k) ==
  /\ ~srvExited
  /\ Len(tasks) < MaxTasks
  /\ srvWg' = srvWg + 1
  /\ tasks' = Append(tasks, [kind |-> k, state |-> "running"])
  /\ UNCHANGED <<srvStarted, activeServer, requests, jobctx,
                 startPc, startRes, sigG, sdPc, sdRes, srvExited>>
  /\ UNCHANGED outsideServer

\* the task returns and the deferred s.wg.Done() runs
TaskFinish(t) ==
  /\ ~srvExited
  /\ t \in DOMAIN tasks
  /\ tasks[t].state = "running"
  /\ CanFinish(tasks[t].kind, jobctx)
  /\ tasks' = [tasks EXCEPT ![t].state = "done"]
  /\ srvWg' = srvWg - 1
  /\ UNCHANGED <<srvStarted, activeServer, requests, jobctx,
                 startPc, startRes, sigG, sdPc, sdRes, srvExited>>
  /\ UNCHANGED outsideServer

\* Server.start up to "s.started = true": the guard, the http.Server when
\* there is none, and the signal goroutine
SrvStartGuard(q) ==
  /\ ~srvExited
  /\ startPc[q] = "idle"
  /\ \A r \in StartIds : r < q => startPc[r] # "idle"
  /\ IF AlreadyStarted(srvStarted)
       THEN /\ startPc' = [startPc EXCEPT ![q] = "done"]
            /\ startRes' = [startRes EXCEPT ![q] = ErrServerAlreadyStarted]
            /\ UNCHANGED <<activeServer, sigG>>
       ELSE /\ startPc' = [startPc EXCEPT ![q] = "mark"]
            /\ activeServer' = IF activeServer = "nil" THEN "new" ELSE activeServer
            /\ sigG' = [sigG EXCEPT ![q] = "waiting"]
            /\ UNCHANGED startRes
  /\ UNCHANGED <<srvStarted, requests, jobctx, srvWg, tasks, sdPc, sdRes, srvExited>>
  /\ UNCHANGED outsideServer

\* s.started = true
SrvMark(q) ==
  /\ ~srvExited
  /\ startPc[q] = "mark"
  /\ srvStarted' = TRUE
  /\ startPc' = [startPc EXCEPT ![q] = "listen"]
  /\ UNCHANGED <<activeServer, requests, jobctx, srvWg, tasks,
                 startRes, sigG, sdPc, sdRes, srvExited>>
  /\ UNCHANGED outsideServer

\* ListenAndServe is called: it serves (bound), or it returns at once:
\* http.ErrServerClosed on a closed http.Server, another error when it cannot
\* listen (always so when the http.Server is serving already), and Start
\* returns that error.
SrvListen(q, bound) ==
  /\ ~srvExited
  /\ startPc[q] = "listen"
  /\ CASE activeServer = "closed" ->
            /\ startPc' = [startPc EXCEPT ![q] = "recv"]
            /\ UNCHANGED <<activeServer, startRes>>
       [] activeServer = "new" /\ bound ->
            /\ startPc' = [startPc EXCEPT ![q] = "serving"]
            /\ activeServer' = "serving"
            /\ UNCHANGED startRes
       [] OTHER ->
            /\ startPc' = [startPc EXCEPT ![q] = "done"]
            /\ startRes' = [startRes EXCEPT ![q] = ListenErr]
            /\ UNCHANGED activeServer
  /\ UNCHANGED <<srvStarted, requests, jobctx, srvWg, tasks, sigG, sdPc, sdRes, srvExited>>
  /\ UNCHANGED outsideServer

\* ListenAndServe returns http.ErrServerClosed
SrvServeEnds(q) ==
  /\ ~srvExited
  /\ startPc[q] = "serving"
  /\ activeServer = "closed"
  /\ startPc' = [startPc EXCEPT ![q] = "recv"]
  /\ UNCHANGED <<srvStarted, activeServer, requests, jobctx, srvWg, tasks,
                 startRes, sigG, sdPc, sdRes, srvExited>>
  /\ UNCHANGED outsideServer

\* err = <-shutdownError: the signal goroutine of the call is sending the
\* error of its Shutdown; Start returns it
SrvRecv(q) ==
  /\ ~srvExited
  /\ startPc[q] = "recv"
  /\ sigG[q] = "sending"
  /\ startRes' = [startRes EXCEPT ![q] = sdRes[SigOf(q)]]
  /\ startPc' = [startPc EXCEPT ![q] = "done"]
  /\ sigG' = [sigG EXCEPT ![q] = "sent"]
  /\ UNCHANGED <<srvStarted, activeServer, requests, jobctx, srvWg, tasks,
                 sdPc, sdRes, srvExited>>
  /\ UNCHANGED outsideServer

\* SIGINT or SIGTERM arrives: every signal goroutine waiting on its quit
\* channel goes on to call s.Shutdown
SrvSignal ==
  /\ ~srvExited
  /\ \E q \in StartIds : sigG[q] = "waiting"
  /\ sigG' = [q \in StartIds |-> IF sigG[q] = "waiting" THEN "shutdown" ELSE sigG[q]]
  /\ UNCHANGED <<srvStarted, activeServer, requests, jobctx, srvWg, tasks,
                 startPc, startRes, sdPc, sdRes, srvExited>>
  /\ UNCHANGED outsideServer

\* the signal goroutine after s.Shutdown returned: it sends a non-nil error on
\* shutdownError, else it calls os.Exit(0)
SigAfterShutdown(q) ==
  /\ ~srvExited
  /\ sigG[q] = "shutdown"
  /\ sdPc[SigOf(q)] = "done"
  /\ IF sdRes[SigOf(q)] # Nil
       THEN sigG' = [sigG EXCEPT ![q] = "sending"] /\ UNCHANGED srvExited
       ELSE sigG' = [sigG EXCEPT ![q] = "exited"] /\ srvExited' = TRUE
  /\ UNCHANGED <<srvStarted, activeServer, requests, jobctx, srvWg, tasks,
                 startPc, startRes, sdPc, sdRes>>
  /\ UNCHANGED outsideServer

\* os.Exit(0) after the error was sent
SigExit(q) ==
  /\ ~srvExited
  /\ sigG[q] = "sent"
  /\ sigG' = [sigG EXCEPT ![q] = "exited"]
  /\ srvExited' = TRUE
  /\ UNCHANGED <<srvStarted, activeServer, requests, jobctx, srvWg, tasks,
                 startPc, startRes, sdPc, sdRes>>
  /\ UNCHANGED outsideServer

\* Server.Shutdown up to the call of activeServer.Shutdown: the guard, the
\* message and s.cancelctx()
SdBegin(p) ==
  /\ ~srvExited
  /\ sdPc[p] = "idle"
  /\ IF p <= MaxShutdowns
       THEN \A r \in 1..MaxShutdowns : r < p => sdPc[r] # "idle"
       ELSE sigG[p - MaxShutdowns] = "shutdown"
  /\ IF NotStarted(srvStarted)
       THEN /\ sdPc' = [sdPc EXCEPT ![p] = "done"]
            /\ sdRes' = [sdRes EXCEPT ![p] = ErrServerNotStarted]
            /\ UNCHANGED jobctx
       ELSE /\ sdPc' = [sdPc EXCEPT ![p] = "http"]
            /\ jobctx' = Cancelctx(jobctx)
            /\ UNCHANGED sdRes
  /\ UNCHANGED <<srvStarted, activeServer, requests, srvWg, tasks,
                 startPc, startRes, sigG, srvExited>>
  /\ UNCHANGED outsideServer

\* activeServer.Shutdown(ctx) closes the listeners: ListenAndServe returns
SdHttpBegin(p) ==
  /\ ~srvExited
  /\ sdPc[p] = "http"
  /\ activeServer' = "closed"
  /\ sdPc' = [sdPc EXCEPT ![p] = "httpwait"]
  /\ UNCHANGED <<srvStarted, requests, jobctx, srvWg, tasks,
                 startPc, startRes, sigG, sdRes, srvExited>>
  /\ UNCHANGED outsideServer

\* activeServer.Shutdown(ctx) returns: nil when no request is being served,
\* the error of ctx when its 5 seconds are over first; then s.started = false
\* and Shutdown returns the error or goes on to s.wg.Wait()
SdHttpEnd(p) ==
  /\ ~srvExited
  /\ sdPc[p] = "httpwait"
  /\ srvStarted' = FALSE
  /\ IF requests = 0
       THEN /\ sdPc' = [sdPc EXCEPT ![p] = "wgwait"]
            /\ UNCHANGED sdRes
       ELSE /\ sdPc' = [sdPc EXCEPT ![p] = "done"]
            /\ sdRes' = [sdRes EXCEPT ![p] = DeadlineExceeded]
  /\ UNCHANGED <<activeServer, requests, jobctx, srvWg, tasks,
                 startPc, startRes, sigG, srvExited>>
  /\ UNCHANGED outsideServer

\* s.wg.Wait() returns and Shutdown returns nil
SdWait(p) ==
  /\ ~srvExited
  /\ sdPc[p] = "wgwait"
  /\ SrvWaitOver(srvWg)
  /\ sdPc' = [sdPc EXCEPT ![p] = "done"]
  /\ sdRes' = [sdRes EXCEPT ![p] = Nil]
  /\ UNCHANGED <<srvStarted, activeServer, requests, jobctx, srvWg, tasks,
                 startPc, startRes, sigG, srvExited>>
  /\ UNCHANGED outsideServer

\* a client's request reaches a handler
RequestArrive ==
  /\ ~srvExited
  /\ activeServer = "serving"
  /\ requests < MaxRequests
  /\ requests' = requests + 1
  /\ UNCHANGED <<srvStarted, activeServer, jobctx, srvWg, tasks,
                 startPc, startRes, sigG, sdPc, sdRes, srvExited>>
  /\ UNCHANGED outsideServer

\* a handler returns
RequestDone ==
  /\ ~srvExited
  /\ requests > 0
  /\ requests' = requests - 1
  /\ UNCHANGED <<srvStarted, activeServer, jobctx, srvWg, tasks,
                 startPc, startRes, sigG, sdPc, sdRes, srvExited>>
  /\ UNCHANGED outsideServer

ServerNext ==
  \/ \E k \in BackgroundKinds : Background(k)
  \/ \E k \in BackgroundContextKinds : BackgroundContext(k)
  \/ \E t \in 1..MaxTasks : TaskFinish(t)
  \/ \E q \in FirstStartIds : SrvStartGuard(q)
  \/ \E q \in FirstStartIds : SrvMark(q)
  \/ \E q \in FirstStartIds, bound \in BOOLEAN : SrvListen(q, bound)
  \/ \E q \in FirstStartIds : SrvServeEnds(q)
  \/ \E q \in FirstStartIds : SrvRecv(q)
  \/ SrvSignal
  \/ \E q \in FirstStartIds : SigAfterShutdown(q)
  \/ \E q \in FirstStartIds : SigExit(q)
  \/ \E p \in SdIds : SdBegin(p)
  \/ \E p \in SdIds : SdHttpBegin(p)
  \/ \E p \in SdIds : SdHttpEnd(p)
  \/ \E p \in SdIds : SdWait(p)
  \/ RequestArrive
  \/ RequestDone

ServerSpec == Init /\ [][ServerNext]_vars

\* The goroutines of the program are scheduled, and a task that waits for its
\* context returns once it is cancelled.  Callers, clients, signals and the
\* release of a blocked task are under no obligation.
ServerFairness ==
  /\ \A q \in FirstStartIds :
       /\ WF_vars(SrvMark(q))
       /\ WF_vars(\E bound \in BOOLEAN : SrvListen(q, bound))
       /\ WF_vars(SrvServeEnds(q))
       /\ WF_vars(SrvRecv(q))
       /\ WF_vars(SigAfterShutdown(q))
       /\ WF_vars(SigExit(q))
       /\ WF_vars(SdBegin(SigOf(q)))
  /\ \A p \in SdIds :
       /\ WF_vars(SdHttpBegin(p))
       /\ WF_vars(SdHttpEnd(p))
       /\ WF_vars(SdWait(p))
  /\ \A t \in 1..MaxTasks :
       WF_vars(TaskFinish(t) /\ tasks[t].kind = "ctx")

ServerFairSpec == ServerSpec /\ ServerFairness

\* The program calls Start again: every call of Start and of Shutdown the
\* program makes, and the requests; no signal arrives and no background task
\* is given.
ServerRestartNext ==
  \/ \E q \in StartIds : SrvStartGuard(q)
  \/ \E q \in StartIds : SrvMark(q)
  \/ \E q \in StartIds, bound \in BOOLEAN : SrvListen(q, bound)
  \/ \E q \in StartIds : SrvServeEnds(q)
  \/ \E p \in 1..MaxShutdowns : SdBegin(p)
  \/ \E p \in 1..MaxShutdowns : SdHttpBegin(p)
  \/ \E p \in 1..MaxShutdowns : SdHttpEnd(p)
  \/ \E p \in 1..MaxShutdowns : SdWait(p)
  \/ RequestArrive
  \/ RequestDone

ServerRestartSpec == Init /\ [][ServerRestartNext]_vars

\* ========================================================== package errchain
\* ErrChain.Use(mw...)
ChainUse(mw) ==
  /\ ~chainPanicked
  /\ Len(globalMW) + Len(mw) <= MaxMw
  /\ globalMW' = globalMW \o mw
  /\ UNCHANGED <<routerMW, routes, served, chainPanicked>>
  /\ UNCHANGED outsideChain

\* Router.Use(mw...)
RouterUse(mw) ==
  /\ ~chainPanicked
  /\ Len(routerMW) + Len(mw) <= MaxMw
  /\ routerMW' = routerMW \o mw
  /\ UNCHANGED <<globalMW, routes, served, chainPanicked>>
  /\ UNCHANGED outsideChain

\* Router.Get(path, h, mw...) and the like: Router.handle builds the handler
\* and registers it; a nil entry of r.mw is called and panics
RouterHandle(mw) ==
  /\ ~chainPanicked
  /\ Len(routes) < MaxRoutes
  /\ IF RouterLoopPanics(routerMW)
       THEN /\ chainPanicked' = TRUE
            /\ UNCHANGED routes
       ELSE /\ routes' = Append(routes,
                 [via |-> "router", mw |-> mw,
                  hdlr |-> routerLoop(ToHandler(globalMW, TheHandler, mw),
                                      routerMW, Len(routerMW))])
            /\ UNCHANGED chainPanicked
  /\ UNCHANGED <<globalMW, routerMW, served>>
  /\ UNCHANGED outsideChain

\* chain.ToHandler(h, mw...) called by the program
ChainToHandler(mw) ==
  /\ ~chainPanicked
  /\ Len(routes) < MaxRoutes
  /\ routes' = Append(routes,
       [via |-> "chain", mw |-> mw, hdlr |-> ToHandler(globalMW, TheHandler, mw)])
  /\ UNCHANGED <<globalMW, routerMW, served, chainPanicked>>
  /\ UNCHANGED outsideChain

\* a request is served by handler i
ServeRequest(i) ==
  /\ ~chainPanicked
  /\ i \in DOMAIN routes
  /\ served' = Executed(routes[i].hdlr)
  /\ UNCHANGED <<globalMW, routerMW, routes, chainPanicked>>
  /\ UNCHANGED outsideChain

ChainNext ==
  \/ \E mw \in MwLists : ChainUse(mw)
  \/ \E mw \in MwLists : RouterUse(mw)
  \/ \E mw \in MwLists : RouterHandle(mw)
  \/ \E mw \in MwLists : ChainToHandler(mw)
  \/ \E i \in 1..MaxRoutes : ServeRequest(i)

ChainSpec == Init /\ [][ChainNext]_vars

\* ------------------------------------------------------- paths of the Router
\* a program about to call NewRouter(prefixArg, chain)
PathInit ==
  /\ NewRunnerState
  /\ optArgs = <<>>
  /\ o = DefaultOpts
  /\ applied = 0
  /\ NewServerState
  /\ NewChainState
  /\ prefixArg \in Strings
  /\ NewPathState

\* NewRouter(prefixArg, chain) with a chain that is not nil
NewRouterCall ==
  /\ routerPc = "none"
  /\ prefix' = NewRouter(prefixArg)
  /\ routerPc' = "made"
  /\ UNCHANGED <<prefixArg, pathArgs, pattern>>
  /\ UNCHANGED outsidePath

\* Router.Method(method, path, h): the pattern it hands to handle
MethodCall(method, path) ==
  /\ routerPc # "none"
  /\ pathArgs' = [method |-> method, path |-> path]
  /\ pattern' = Method(prefix, method, path)
  /\ routerPc' = "handled"
  /\ UNCHANGED <<prefixArg, prefix>>
  /\ UNCHANGED outsidePath

PathNext ==
  \/ NewRouterCall
  \/ \E method \in Methods, path \in Strings : MethodCall(method, path)

PathSpec == PathInit /\ [][PathNext]_vars

\* ================================================================== claims
\* what the plugins of Test_Runner_LifeCycle record
RecordedStart(c, i) == worker[c][i] \in {"running", "returned", "finished"}
RecordedStop(c, i) == worker[c][i] \in {"returned", "finished"}

\* the plugins of call c whose start function has returned an error
Failed(c) ==
  {i \in DOMAIN worker[c] : plugs[c][i] = "fail" /\ worker[c][i] \in {"returned", "finished"}}

\* the scope of a call that has not returned was cancelled (by the caller, a
\* signal or a Shutdown request)
CancelledFromOutside(c) == ctxDone[c] /\ ~Returned(c)

\* Start was called more than once on the Runner
OtherCall(c) == \E d \in Calls \ {c} : pc[d] # "idle"

\* the run of call c is outside the case of a single Start whose scope nobody
\* cancels
Disturbed(c) == CancelledFromOutside(c) \/ OtherCall(c) \/ panicked

\* C1: with one registered plugin whose start function fails at once, and a
\* scope nobody cancels, Start returns, and returns that plugin's error.
C1_FailedStartupReturnsError ==
  \A c \in Calls :
    (Active(c) /\ plugs[c] = <<"fail">>)
      ~> \/ Returned(c) /\ result[c] = PluginErr(1)
         \/ Disturbed(c)

\* C2: a second Shutdown() completes normally: the process does not panic and
\* the Runner is left as the first call left it.
C2_SecondShutdownCompletes ==
  [][(Shutdown /\ shutdown = "closed") => (~panicked' /\ UNCHANGED runnerVars)]_vars

\* C3: a Start call that begins while another call has passed the guard and
\* not returned is rejected with ErrRunnerAlreadyStarted and launches nothing.
C3_OverlappingStartRejected ==
  [][\A c \in Calls :
       (pc[c] = "idle" /\ pc'[c] # "idle" /\ \E d \in Calls \ {c} : Active(d))
         => (result'[c] = ErrRunnerAlreadyStarted /\ worker'[c] = <<>>)]_vars

\* C4: when two or more plugins of a run have failed and nothing else cancels
\* the scope, Start returns the error of one of them.
C4_OneOfTheFailuresReturned ==
  \A c \in Calls :
    (Active(c) /\ Cardinality(Failed(c)) >= 2)
      ~> \/ Returned(c) /\ result[c] \in {PluginErr(i) : i \in Failed(c)}
         \/ Disturbed(c)

\* C5: once the launch loop of a call is over, every registered plugin has its
\* worker (its start function is called exactly once in the run).
C5_EveryPluginLaunched ==
  \A c \in Calls :
    (Passed(c) /\ pc[c] # "loop")
      => \A i \in DOMAIN plugs[c] : worker[c][i] # "none"

\* C6: a plugin failure before the scope is cancelled leads to the scope being
\* cancelled.
C6_FailureCancelsScope ==
  \A c \in Calls :
    (~ctxDone[c] /\ \E i \in DOMAIN worker[c] :
                      plugs[c][i] = "fail" /\ worker[c][i] = "returned")
      ~> (ctxDone[c] \/ panicked)

\* the plugins of call c are all of kind k
AllOfKind(c, k) == \A i \in DOMAIN plugs[c] : plugs[c][i] = k

\* C7: a call all of whose plugins (any number, also none) return nil once the
\* scope is cancelled returns nil, not DeadlineExceeded.
C7_CooperativePluginsReturnNil ==
  \A c \in Calls :
    (Returned(c) /\ Passed(c) /\ AllOfKind(c, "ok")) => result[c] = Nil

C7_Witness ==
  \E c \in Calls :
    /\ Returned(c) /\ Passed(c) /\ AllOfKind(c, "ok")
    /\ Len(plugs[c]) >= 2
    /\ \A i \in DOMAIN worker[c] : worker[c][i] = "finished"
    /\ result[c] = Nil

\* C8: with no failing plugin and a plugin that never returns, a call returns
\* DeadlineExceeded, and only after the grace timer elapsed.
C8_HangingPluginReturnsTimeout ==
  \A c \in Calls :
    (Returned(c) /\ Passed(c)
       /\ (\A i \in DOMAIN plugs[c] : plugs[c][i] # "fail")
       /\ (\E i \in DOMAIN plugs[c] : plugs[c][i] = "hang"))
      => (result[c] = DeadlineExceeded /\ newTimer[c] = "fired")

C8_Witness ==
  \E c \in Calls :
    /\ Returned(c) /\ Passed(c)
    /\ plugs[c] = <<"hang", "ok">>
    /\ worker[c] = <<"running", "finished">>
    /\ result[c] = DeadlineExceeded

C11_CancelledStartReturns ==
  \A c \in Calls :
    /\ (Active(c) /\ ctxDone[c]) ~> (Returned(c) \/ panicked)
    /\ (Active(c) /\ ctxDone[c] /\ result[c] = Pending)
         ~> ((Returned(c) /\ result[c] \in {Nil, DeadlineExceeded}) \/ panicked)

C11_Witness ==
  \E c \in Calls :
    /\ Returned(c) /\ result[c] = DeadlineExceeded
    /\ plugs[c] = <<"hang">> /\ worker[c] = <<"running">>
    /\ newTimer[c] = "fired"

\* C12: when Start returns DeadlineExceeded some worker of the run has not
\* finished.
C12_TimeoutOnlyWithUnfinishedWorker ==
  \A c \in Calls :
    (pc[c] = "ret" /\ result[c] = DeadlineExceeded)
      => \E i \in DOMAIN worker[c] : worker[c][i] \in {"spawned", "running", "returned"}

\* C13: an error Start returns from the plugin-error case is the very value
\* the start function of one of the run's plugins returned.
C13_FailureReturnedUnchanged ==
  \A c \in Calls :
    (pc[c] \in {"ret", "done"} /\ Passed(c)
       /\ result[c] \notin {Pending, Nil, DeadlineExceeded})
      => \E i \in Failed(c) : result[c] = RetVal(plugs[c][i], i)

C13_Witness ==
  \E c \in Calls :
    /\ Returned(c) /\ plugs[c] = <<"ok", "fail">>
    /\ result[c] = PluginErr(2)

\* C14: every return of a call that passed the guard leaves started false, and
\* a Start that begins while no other call is in progress is not rejected.
C14_StartedResetOnReturn ==
  [][\A c \in Calls :
       /\ (pc[c] = "ret" /\ pc'[c] = "done") => ~started'
       /\ (pc[c] = "idle" /\ pc'[c] # "idle" /\ \A d \in Calls \ {c} : ~Active(d))
            => result'[c] # ErrRunnerAlreadyStarted]_vars

C14_Witness ==
  /\ Returned(1) /\ result[1] = PluginErr(1)
  /\ worker[1] = <<"finished">>
  /\ pc[2] = "loop"
  /\ ~started

C16_ShutdownOnlyCancelsCurrentRun ==
  \A c \in Calls :
    []((pc[c] = "idle" /\ shutdown = "closed") => [](watcher[c] # "exited"))

\* C17: a call that passed the guard has its scope cancelled when it returns,
\* and the launched plugins that honour cancellation then return.
C17_ScopeCancelledAtReturn ==
  \A c \in Calls :
    /\ []((Returned(c) /\ Passed(c)) => ctxDone[c])
    /\ (Returned(c) /\ Passed(c))
         ~> \/ panicked
            \/ \A i \in DOMAIN worker[c] :
                 (plugs[c][i] = "ok" /\ worker[c][i] # "none") => worker[c][i] = "finished"

C17_Witness ==
  \E c \in Calls :
    /\ Returned(c) /\ plugs[c] = <<"fail", "ok">>
    /\ result[c] = PluginErr(1)
    /\ worker[c] = <<"finished", "finished">>

\* ------------------------------------------------------------------ C18
\* the options among the first k that were made by constructor w
MadeBy(w, k) == {i \in 1..k : optArgs[i].with = w}

\* the largest element of a non-empty set of numbers
Last(S) == CHOOSE i \in S : \A j \in S : j <= i

\* C18: after the first k options the signals, the timeout and the println of
\* the runnerOpts are each the value of the last option for that field among
\* them, or the default when there is none.
C18_OptionsAppliedInOrder ==
  /\ o.signals = IF MadeBy("WithSignals", applied) = {} THEN DefaultSignals
                 ELSE optArgs[Last(MadeBy("WithSignals", applied))].signals
  /\ o.timeout = IF MadeBy("WithTimeout", applied) = {} THEN DefaultTimeout
                 ELSE optArgs[Last(MadeBy("WithTimeout", applied))].timeout
  /\ o.println = IF MadeBy("WithPrintln", applied) = {} THEN DefaultPrintln
                 ELSE optArgs[Last(MadeBy("WithPrintln", applied))].println

C18_Witness ==
  /\ applied = Len(optArgs)
  /\ optArgs = <<WithSignals({"syscall.SIGHUP"}), WithTimeout(3), WithSignals({})>>
  /\ o = [signals |-> {}, timeout |-> 3, println |-> DefaultPrintln]

\* every task given to Background or BackgroundContext so far has finished
AllTasksDone == \A t \in DOMAIN tasks : tasks[t].state = "done"

\* call p of Shutdown returns nil in this step
ShutdownReturnsNil(p) ==
  /\ sdPc[p] # "done"
  /\ sdPc'[p] = "done"
  /\ sdRes'[p] = Nil

\* C19: Shutdown on a started server returns nil only after every task given
\* to Background has finished: while a task is still blocked no step makes
\* Shutdown return nil, and once every task has finished (and the process has
\* not exited) the waiting Shutdown can return, and the step that returns
\* gives nil.
C19_ShutdownWaitsForTasks ==
  /\ [][\A p \in SdIds : ShutdownReturnsNil(p) => AllTasksDone]_vars
  /\ [](\A p \in SdIds :
          (sdPc[p] = "wgwait" /\ AllTasksDone /\ ~srvExited) => ENABLED SdWait(p))
  /\ [][\A p \in SdIds :
          (sdPc[p] = "wgwait" /\ sdPc'[p] # "wgwait") => ShutdownReturnsNil(p)]_vars

\* a Shutdown that found a Background task running has returned nil, the
\* task having finished
C19_Witness ==
  \E p \in SdIds :
    /\ sdPc[p] = "done"
    /\ sdRes[p] = Nil
    /\ \E t \in DOMAIN tasks : tasks[t].kind = "block" /\ tasks[t].state = "done"

\* C20: Shutdown on a server that is not started returns ErrServerNotStarted
\* and changes nothing else: the job context, the wait group, the tasks, the
\* http.Server and the started flag are as they were.
C20_ShutdownNotStarted ==
  [][\A p \in SdIds :
       (sdPc[p] = "idle" /\ sdPc'[p] # "idle" /\ ~srvStarted) =>
         /\ sdPc'[p] = "done"
         /\ sdRes'[p] = ErrServerNotStarted
         /\ UNCHANGED <<srvStarted, activeServer, requests, jobctx, srvWg, tasks,
                        startPc, startRes, sigG, srvExited>>]_vars

\* both cases in one run: the first Shutdown found a server that was never
\* started or had been shut down, and the second came after the Shutdown of
\* the signal goroutine had shut the started server down; both returned
\* ErrServerNotStarted
C20_Witness ==
  /\ sdPc[1] = "done" /\ sdRes[1] = ErrServerNotStarted
  /\ sdPc[2] = "done" /\ sdRes[2] = ErrServerNotStarted
  /\ sdPc[SigOf(1)] = "done" /\ sdRes[SigOf(1)] = Nil
\* call q of Start passes the guard or is rejected in this step
StartEntered(q) == startPc[q] = "idle" /\ startPc'[q] # "idle"

\* C21: Start on a server that is started returns ErrServerAlreadyStarted and
\* leaves the http.Server, its requests, the flag, the job context, the tasks,
\* the signal goroutines and every other call as they were; a Shutdown that
\* has not begun can begin afterwards (what it does then depends only on the
\* state the rejected call left untouched).
C21_SecondStartRejected ==
  [][\A q \in StartIds :
       (StartEntered(q) /\ srvStarted) =>
         /\ startPc'[q] = "done"
         /\ startRes'[q] = ErrServerAlreadyStarted
         /\ \A r \in StartIds \ {q} : startPc'[r] = startPc[r] /\ startRes'[r] = startRes[r]
         /\ UNCHANGED <<srvStarted, activeServer, requests, jobctx, srvWg, tasks,
                        sigG, sdPc, sdRes, srvExited>>
         /\ \A p \in 1..MaxShutdowns :
              (sdPc[p] = "idle" /\ \A r \in 1..(p - 1) : sdPc[r] # "idle")
                => ENABLED SdBegin(p)]_vars

\* the second Start was rejected while the first was serving, and the server
\* was shut down: Shutdown returned nil and ListenAndServe of the first call
\* returned
C21_Witness ==
  /\ startPc[2] = "done" /\ startRes[2] = ErrServerAlreadyStarted
  /\ startPc[1] = "recv"
  /\ sdPc[1] = "done" /\ sdRes[1] = Nil
\* a Background task is blocked, waiting for the program to release it
BlockedTask == \E t \in DOMAIN tasks : tasks[t].kind = "block" /\ tasks[t].state = "running"

\* C22: a Shutdown that waits for the background tasks returns in the end,
\* also when a BackgroundContext task never finishes (unless the process
\* exits, or the task it waits for is a Background task the program has not
\* released).
C22_ShutdownReturnsDespiteTask ==
  \A p \in SdIds :
    (sdPc[p] = "wgwait") ~> (sdPc[p] = "done" \/ srvExited \/ BlockedTask)
\* the entries of a middleware list that are functions
NonNil(mw) == SelectSeq(mw, LAMBDA m : m # "nil")

\* the handler built last
LastRoute(rs) == rs[Len(rs)]

\* this step is a registration through the Router: it adds a route or panics
RouterRegisters ==
  \/ chainPanicked' # chainPanicked
  \/ Len(routes') > Len(routes) /\ LastRoute(routes').via = "router"

\* this step is a call of chain.ToHandler by the program
ChainRegisters == Len(routes') > Len(routes) /\ LastRoute(routes').via = "chain"

\* C23: a route registered through the Router runs, per request, the Router's
\* middleware in the order given, then the ErrChain's global middleware in the
\* order given, then the route's own middleware in the order given, then the
\* handler; nil entries of each list are skipped.
C23_RouterMiddlewareOrder ==
  [][RouterRegisters =>
       /\ ~chainPanicked'
       /\ Executed(LastRoute(routes').hdlr) =
            NonNil(routerMW) \o NonNil(globalMW) \o NonNil(LastRoute(routes').mw) \o TheHandler]_vars

\* C24: the handler made by chain.ToHandler(handler, mw...) runs the
\* middleware given to ToHandler, then the global middleware, then the handler.
C24_ToHandlerGivenBeforeGlobal ==
  [][ChainRegisters =>
       Executed(LastRoute(routes').hdlr) =
         NonNil(LastRoute(routes').mw) \o NonNil(globalMW) \o TheHandler]_vars
\* the select of call c was resumed, or the call returned, with this result
ResumedWith(c, r) == pc[c] \in {"ret", "done"} /\ Passed(c) /\ result[c] = r

\* C25: when Start returns nil the scope of the run was cancelled before and
\* the start function of every registered plugin was invoked and has returned:
\* no worker of the run is still executing.
C25_NilOnlyAfterAllWorkers ==
  \A c \in Calls :
    ResumedWith(c, Nil) =>
      /\ ctxDone[c]
      /\ \A i \in DOMAIN plugs[c] : worker[c][i] = "finished"

\* a run of two plugins, cancelled, has returned nil
C25_Witness ==
  \E c \in Calls :
    /\ Returned(c) /\ Passed(c) /\ result[c] = Nil
    /\ Len(plugs[c]) >= 2

\* call c has chosen the case <-ctx.Done() of its first select
Draining(c) == pc[c] \in {"drain", "parked2"} \/ newTimer[c] # "none"

\* a worker of call c reports in this step: it stores the failure of its
\* plugin and tries to send it
ReportsFailure(c) ==
  \E i \in DOMAIN worker[c] :
    /\ plugs[c][i] = "fail"
    /\ worker[c][i] = "returned"
    /\ i \in DOMAIN worker'[c]
    /\ worker'[c][i] = "finished"

\* C26: once Start has begun draining, a failure reported by a plugin changes
\* neither the position nor the result of the call; the call returns nil,
\* with every worker joined, or DeadlineExceeded, with the join still open when
\* the timer elapsed, and never the failure of a plugin.
C26_FailureIgnoredInDrain ==
  /\ [](\A c \in Calls :
          Draining(c) =>
            /\ result[c] \in {Pending, Nil, DeadlineExceeded}
            /\ ResumedWith(c, Nil) => wgChannel[c]
            /\ (pc[c] = "ret" /\ result[c] = DeadlineExceeded) => ~wgChannel[c])
  /\ [][\A c \in Calls :
          (Draining(c) /\ ReportsFailure(c)) =>
            (pc'[c] = pc[c] /\ result'[c] = result[c])]_vars

\* a call is draining and the worker of a failing plugin has just reported,
\* the failure is stored and the call goes on waiting for the join
C26_Witness ==
  \E c \in Calls :
    /\ pc[c] = "parked2"
    /\ plugErr[c] # Nil
    /\ \E i \in DOMAIN plugs[c] : plugs[c][i] = "fail" /\ worker[c][i] = "finished"
    /\ \E i \in DOMAIN plugs[c] : plugs[c][i] = "ok" /\ worker[c][i] = "running"

\* the result is the failure of a plugin
IsPluginErr(r) == r.kind = "plugin"

\* C27: on the path of a plugin failure Start returns without waiting for the
\* other workers and without creating the timer, and prints no line of the
\* drain: only "plugin error:" once it has returned.
C27_FailurePathNoDrain ==
  \A c \in Calls :
    (pc[c] \in {"ret", "done"} /\ Passed(c) /\ IsPluginErr(result[c])) =>
      /\ newTimer[c] = "none"
      /\ log[c] = IF pc[c] = "done" THEN <<"plugin error:">> ELSE <<>>

\* Start has returned the failure of a plugin while another worker of the run
\* is still executing the start function of its plugin
C27_Witness ==
  \E c \in Calls :
    /\ Returned(c)
    /\ IsPluginErr(result[c])
    /\ \E i \in DOMAIN worker[c] : worker[c][i] = "running"

\* C28: a worker whose plugin has returned can always go on, whatever Start
\* is doing, and the step it takes signals the join (wg.Done) and ends the
\* worker.
C28_WorkerNeverBlocks ==
  /\ [](\A c \in Calls : \A i \in DOMAIN worker[c] :
          (worker[c][i] = "returned" /\ ~panicked) => ENABLED WorkerExit(c, i))
  /\ [][\A c \in Calls : \A i \in DOMAIN worker[c] :
          (worker[c][i] = "returned" /\ i \in DOMAIN worker'[c] /\ worker'[c][i] # "returned")
            => (worker'[c][i] = "finished" /\ wg'[c] = wg[c] - 1)]_vars

\* Start has returned the failure of one plugin, and the worker of another
\* failing plugin, whose report was not taken, has signalled the join
C28_Witness ==
  \E c \in Calls :
    /\ Returned(c)
    /\ IsPluginErr(result[c])
    /\ \E j \in DOMAIN worker[c] :
         /\ result[c] # PluginErr(j)
         /\ plugs[c][j] = "fail"
         /\ worker[c][j] = "finished"

\* C29: a call creates its timer at most once, and only in the case
\* <-ctx.Done() with its scope cancelled; afterwards the timer only elapses or
\* is stopped, whatever the workers do; DeadlineExceeded is the result only
\* when the timer has elapsed.
C29_OneGraceTimer ==
  /\ [][\A c \in Calls :
          newTimer'[c] # newTimer[c] =>
            \/ newTimer[c] = "none" /\ newTimer'[c] = "armed" /\ pc[c] = "drain" /\ ctxDone[c]
            \/ newTimer[c] = "armed" /\ newTimer'[c] = "fired" /\ pc[c] = "parked2"
            \/ newTimer[c] = "armed" /\ newTimer'[c] = "stopped" /\ pc[c] = "ret"]_vars
  /\ [](\A c \in Calls : ResumedWith(c, DeadlineExceeded) => newTimer[c] = "fired")

\* a call returned DeadlineExceeded after its timer elapsed, a worker having
\* returned during the run
C29_Witness ==
  \E c \in Calls :
    /\ Returned(c) /\ result[c] = DeadlineExceeded
    /\ newTimer[c] = "fired"
    /\ \E i \in DOMAIN worker[c] : worker[c][i] = "finished"

DrainBegin == "server received signal, shutting down"

\* C30: the lines printed by a call that passed the guard are, when it has
\* returned, one of: the plugin error; drain begin, all stopped; drain begin,
\* timeout; the last line is the one of the result.  Before the return only
\* drain begin can have been printed.
C30_DiagnosticSequences ==
  \A c \in Calls :
    Passed(c) =>
      IF Returned(c)
        THEN \/ IsPluginErr(result[c]) /\ log[c] = <<"plugin error:">>
             \/ result[c] = Nil /\ log[c] = <<DrainBegin, "all plugins have stopped, shutting down">>
             \/ /\ result[c] = DeadlineExceeded
                /\ log[c] = <<DrainBegin, "timeout waiting for plugins to stop, shutting down">>
        ELSE log[c] \in {<<>>, <<DrainBegin>>}

\* the runs of one Runner have printed two of the three sequences: one call
\* returned nil and a later one DeadlineExceeded or the failure of a plugin
C30_Witness ==
  \E c, d \in Calls :
    /\ Returned(c) /\ result[c] = Nil /\ Len(log[c]) = 2
    /\ Returned(d) /\ Passed(d) /\ result[d] # Nil
\* the worker of an "early" plugin of call c ends in this step
EarlyWorkerEnds(c, i) ==
  /\ i \in DOMAIN worker[c]
  /\ plugs[c][i] = "early"
  /\ worker[c][i] # "finished"
  /\ i \in DOMAIN worker'[c]
  /\ worker'[c][i] = "finished"

\* C31: the select of a call that passed the guard resumes only with its scope
\* cancelled or with the failure a plugin reported; the worker of a plugin
\* that returns nil before cancellation ends without changing the position or
\* the result of the call, the scope, or the other workers.
C31_NoReturnWithoutCause ==
  /\ [](\A c \in Calls :
          pc[c] = "ret" =>
            \/ ctxDone[c]
            \/ IsPluginErr(result[c]) /\ plugErr[c] # Nil)
  /\ [][\A c \in Calls : \A i \in 1..MaxPlugins :
          EarlyWorkerEnds(c, i) =>
            /\ pc'[c] = pc[c]
            /\ result'[c] = result[c]
            /\ ctxDone'[c] = ctxDone[c]
            /\ \A j \in DOMAIN worker[c] \ {i} : worker'[c][j] = worker[c][j]]_vars

\* the worker of a plugin that returned nil has ended, the scope is not
\* cancelled, Start waits in its select and another plugin is running
C31_Witness ==
  \E c \in Calls :
    /\ pc[c] = "parked"
    /\ ~ctxDone[c]
    /\ \E i \in DOMAIN worker[c] : plugs[c][i] = "early" /\ worker[c][i] = "finished"
    /\ \E i \in DOMAIN worker[c] : plugs[c][i] = "ok" /\ worker[c][i] = "running"
\* sequence s is the beginning of sequence t
IsPrefix(s, t) == Len(s) <= Len(t) /\ SubSeq(t, 1, Len(s)) = s

\* C32: AddPlugin appends to the end of the registry and keeps the earlier
\* entries in place, and while a Start call is in progress (from its guard to
\* its return) the registry and the workers of the run do not change.
C32_RegistryFixedDuringRun ==
  /\ [][IsPrefix(plugins, plugins')]_vars
  /\ [][\A c \in Calls :
          Active(c) =>
            /\ plugins' = plugins
            /\ plugs'[c] = plugs[c]
            /\ DOMAIN worker'[c] = DOMAIN worker[c]]_vars
\* call c of Start reaches the guard in this step
GuardStep(c) == pc[c] = "idle" /\ pc'[c] # "idle"

\* C33: a call of Start that finds the Runner started returns
\* ErrRunnerAlreadyStarted and changes nothing else: no worker, no watcher,
\* no timer, the scopes, the started flag, the registry, the shutdown channel
\* and the lines printed are as they were, for the rejected call and for the
\* run in progress.
C33_RejectedStartChangesNothing ==
  [][\A c \in Calls :
       (GuardStep(c) /\ started) =>
         /\ pc'[c] = "done"
         /\ result'[c] = ErrRunnerAlreadyStarted
         /\ \A d \in Calls \ {c} : pc'[d] = pc[d] /\ result'[d] = result[d]
         /\ UNCHANGED <<started, plugins, shutdown, panicked, plugs, idx, parent,
                        ctxDone, wg, wgChannel, plugErr, worker, watcher, newTimer, log>>]_vars

\* the second call was rejected while the first is still running with its
\* scope uncancelled, its worker inside the plugin and the flag set
C33_Witness ==
  /\ pc[2] = "done" /\ result[2] = ErrRunnerAlreadyStarted
  /\ pc[1] = "parked"
  /\ ~ctxDone[1]
  /\ started
  /\ worker[1] = <<"running">>
  /\ watcher = <<"waiting", "none">>
  /\ log[2] = <<>>
LaunchedWorkersEnded(c) ==
  \A i \in DOMAIN worker[c] : worker[c][i] \in {"none", "finished"}

\* C35: once Start has returned and every plugin it launched has returned,
\* the goroutine that waits for Shutdown ends, also when Shutdown is never
\* called (unless the process panics).
C35_WatcherTerminates ==
  \A c \in Calls :
    (Returned(c) /\ Passed(c) /\ LaunchedWorkersEnded(c))
      ~> (watcher[c] # "waiting" \/ panicked)
\* call p of Shutdown passed the guard: the server was started
PassedGuard(p) ==
  \/ sdPc[p] \in {"http", "httpwait", "wgwait"}
  \/ sdPc[p] = "done" /\ sdRes[p] # ErrServerNotStarted

\* C36: a Shutdown that passed its guard has cancelled the job context before
\* it shuts the http.Server down and before it waits for the tasks, so every
\* running task that returns on cancellation can return while Shutdown waits;
\* the job context is cancelled only by the guard step of a Shutdown on a
\* started server.
C36_JobContextCancelledFirst ==
  /\ [](\A p \in SdIds : PassedGuard(p) => jobctx)
  /\ [](\A p \in SdIds : \A t \in DOMAIN tasks :
          (sdPc[p] = "wgwait" /\ tasks[t].kind = "ctx" /\ tasks[t].state = "running"
             /\ ~srvExited) => ENABLED TaskFinish(t))
  /\ [][(~jobctx /\ jobctx') =>
          (srvStarted /\ \E p \in SdIds : sdPc[p] = "idle" /\ sdPc'[p] = "http")]_vars

\* a Shutdown has returned nil on a server with a task that returned when its
\* context was cancelled
C36_Witness ==
  \E p \in SdIds :
    /\ sdPc[p] = "done" /\ sdRes[p] = Nil
    /\ jobctx
    /\ \E t \in DOMAIN tasks : tasks[t].kind = "ctx" /\ tasks[t].state = "done"

\* C37: when a Shutdown has returned nil, the Start call that is still in
\* ListenAndServe returns nil in the end (unless the process exits).
C37_StartReturnsAfterShutdown ==
  \A q \in StartIds :
    (startPc[q] = "serving" /\ \E p \in SdIds : sdPc[p] = "done" /\ sdRes[p] = Nil)
      ~> (startPc[q] = "done" /\ startRes[q] = Nil) \/ srvExited
\* path with a leading '/' forced
ForcedSlash(path) ==
  IF path # <<>> /\ path[1] = "/" THEN path ELSE <<"/">> \o path

\* C38: for every prefix string NewRouter stores a prefix that is empty or
\* starts with '/' and does not end with '/', and every pattern Method builds
\* is method, a space, the stored prefix and the path with a leading '/'
C38_PrefixAndPattern ==
  /\ routerPc # "none" =>
       \/ prefix = <<>>
       \/ prefix[1] = "/" /\ prefix[Len(prefix)] # "/"
  /\ routerPc = "handled" =>
       pattern = pathArgs.method \o <<" ">> \o prefix \o ForcedSlash(pathArgs.path)
====
